---- MODULE Spec2Model ----
(***************************************************************************)
(* Referral ledger of bot.py: users, deposits, referral earnings and       *)
(* withdrawals kept in SQLite, and the handlers that read and write them.  *)
(* Money in the tables is TEXT with two decimals; it is modelled in cents. *)
(***************************************************************************)
EXTENDS Integers, Sequences, FiniteSets, TLC

VARIABLES users, deposits, ref_earnings, withdrawals, REF_PERCENT, reply

\* reply is the message the last step answered with, "none" when it sent none
vars == <<users, deposits, ref_earnings, withdrawals, REF_PERCENT, reply>>

store == <<users, deposits, ref_earnings, withdrawals>>


(***************************************************************************)
(* Arithmetic helpers.                                                     *)
(***************************************************************************)
Abs(x) == IF x < 0 THEN -x ELSE x

Sgn(x) == IF x > 0 THEN 1 ELSE IF x < 0 THEN -1 ELSE 0

RECURSIVE Pow(_, _)
Pow(b, n) == IF n = 0 THEN 1 ELSE b * Pow(b, n - 1)

(***************************************************************************)
(* Unbounded naturals as six limbs of 15 bits, least significant first.    *)
(* They carry the digit generation of str(float), whose intermediate       *)
(* products exceed 32-bit integers.                                        *)
(***************************************************************************)
Big(n) == <<n % 32768, (n \div 32768) % 32768, n \div 1073741824, 0, 0, 0>>

BigToInt(x) == x[1] + 32768 * x[2] + 1073741824 * x[3]

RECURSIVE BigMulC(_, _, _, _)
BigMulC(x, m, i, carry) ==
    IF i > Len(x) THEN <<>>
    ELSE LET t == x[i] * m + carry
         IN  <<t % 32768>> \o BigMulC(x, m, i + 1, t \div 32768)

BigMul(x, m) == BigMulC(x, m, 1, 0)

\* x * 5^k and x * 2^j, a limb-sized factor at a time
RECURSIVE BigTimesPow5(_, _)
BigTimesPow5(x, k) ==
    IF k >= 6 THEN BigTimesPow5(BigMul(x, 15625), k - 6) ELSE BigMul(x, Pow(5, k))

RECURSIVE BigShl(_, _)
BigShl(x, j) ==
    IF j >= 14 THEN BigShl(BigMul(x, 16384), j - 14) ELSE BigMul(x, Pow(2, j))

RECURSIVE BigDivC(_, _, _, _)
BigDivC(x, d, i, rem) ==
    IF i = 0 THEN <<>>
    ELSE LET t == rem * 32768 + x[i]
         IN  BigDivC(x, d, i - 1, t % d) \o <<t \div d>>

BigDiv(x, d) == BigDivC(x, d, Len(x), 0)

RECURSIVE BigShr(_, _)
BigShr(x, j) ==
    IF j >= 15 THEN BigShr(BigDiv(x, 32768), j - 15) ELSE BigDiv(x, Pow(2, j))

RECURSIVE BigAddC(_, _, _, _)
BigAddC(x, y, i, carry) ==
    IF i > Len(x) THEN <<>>
    ELSE LET t == x[i] + y[i] + carry
         IN  <<t % 32768>> \o BigAddC(x, y, i + 1, t \div 32768)

BigAdd(x, y) == BigAddC(x, y, 1, 0)

RECURSIVE BigSubC(_, _, _, _)
BigSubC(x, y, i, borrow) ==
    IF i > Len(x) THEN <<>>
    ELSE LET t == x[i] - y[i] - borrow
         IN  <<t % 32768>> \o BigSubC(x, y, i + 1, IF t < 0 THEN 1 ELSE 0)

RECURSIVE BigLessC(_, _, _)
BigLessC(x, y, i) ==
    IF i = 0 THEN FALSE
    ELSE IF x[i] # y[i] THEN x[i] < y[i]
    ELSE BigLessC(x, y, i - 1)

BigLess(x, y) == BigLessC(x, y, Len(x))

BigDist(x, y) == IF BigLess(x, y) THEN BigSubC(y, x, 1, 0) ELSE BigSubC(x, y, 1, 0)


(***************************************************************************)
(* SQLite REAL and Python float: IEEE-754 binary64.  The amounts of the    *)
(* ledger lie on the cents grid, and a double near that grid is written    *)
(*     [c |-> cents, r |-> residue],  value = c/100 + r / (100 * 2^59),    *)
(* which holds every double of magnitude >= 2^-7 exactly (its unit in the  *)
(* last place is 2^(p-52) = 25 * 2^(p+9) residue units for exponent p) and *)
(* every exact difference of such doubles.                                 *)
(***************************************************************************)
RealZero == [c |-> 0, r |-> 0]

RealNeg(x) == [c |-> -x.c, r |-> -x.r]

\* x >= 2^q, for x = c/100 + r units, c > 0
AtLeastPow2(c, r, q) ==
    IF q >= 0
    THEN c > 100 * Pow(2, q) \/ (c = 100 * Pow(2, q) /\ r >= 0)
    ELSE c * Pow(2, -q) > 100 \/ (c * Pow(2, -q) = 100 /\ r >= 0)

\* binary exponent of x: 2^p <= x < 2^(p+1)
RECURSIVE ExponentFrom(_, _, _)
ExponentFrom(c, r, p) ==
    IF AtLeastPow2(c, r, p + 1) THEN ExponentFrom(c, r, p + 1) ELSE p

Exponent(c, r) == ExponentFrom(c, r, -7)

\* unit in the last place of a double of exponent p, in residue units
Ulp(p) == 25 * Pow(2, p + 9)

\* (c * 2^59 + r) mod (25 * 2^sh): the position of x between two multiples
\* of 2^(sh-61); 2^59 = 2^sh * 2^(59-sh), and only 2^(59-sh) mod 25 matters
GridResidue(c, r, sh) ==
    (Pow(2, sh) * ((c * (Pow(2, (59 - sh) % 20) % 25)) % 25) + r) % (25 * Pow(2, sh))

\* round to nearest double, ties to even (c > 0)
RoundPos(c, r) ==
    LET p    == Exponent(c, r)
        G    == Ulp(p)
        rm   == GridResidue(c, r, p + 9)
        odd  == GridResidue(c, r, p + 10) >= G
        down == [c |-> c, r |-> r - rm]
        up   == [c |-> c, r |-> r + G - rm]
    IN  IF 2 * rm < G THEN down
        ELSE IF 2 * rm > G THEN up
        ELSE IF odd THEN up ELSE down

RoundToDouble(c, r) ==
    IF c = 0 THEN [c |-> 0, r |-> r]
    ELSE IF c < 0 THEN RealNeg(RoundPos(-c, -r))
    ELSE RoundPos(c, r)

\* CAST(amount AS REAL) of a two-decimal TEXT amount
CastReal(cents) == RoundToDouble(cents, 0)

\* the addition of two doubles
RealAdd(x, y) == RoundToDouble(x.c + y.c, x.r + y.r)

\* SUM(CAST(amount AS REAL)) over the rows in rowid order
RECURSIVE SumReal(_, _)
SumReal(amounts, acc) ==
    IF amounts = <<>> THEN acc
    ELSE SumReal(Tail(amounts), RealAdd(acc, CastReal(Head(amounts))))


(***************************************************************************)
(* Python Decimal values met by the handlers.  A Decimal near the cents    *)
(* grid is [c |-> cents, e |-> offset in units of 10^-19, s |-> sign of    *)
(* what lies below 10^-19]; additions and subtractions of such values are  *)
(* exact in Python (28 significant digits) and here.                       *)
(***************************************************************************)
Dec(cents) == [c |-> cents, e |-> 0, s |-> 0]

DecNeg(d) == [c |-> -d.c, e |-> -d.e, s |-> -d.s]

DecSub(a, b) == [c |-> a.c - b.c, e |-> a.e - b.e, s |-> a.s - b.s]

\* sign of a Decimal: the offsets are far below one cent
DecSign(d) ==
    IF d.c # 0 THEN Sgn(d.c) ELSE IF d.e # 0 THEN Sgn(d.e) ELSE Sgn(d.s)

\* decimal exponent of x = c/100 + r units, c > 0: 10^m <= x < 10^(m+1)
Decade(c, r) ==
    LET m == IF c < 10 THEN -2 ELSE IF c < 100 THEN -1 ELSE IF c < 1000 THEN 0
             ELSE IF c < 10000 THEN 1 ELSE 2
    IN  IF r < 0 /\ c \in {1, 10, 100, 1000, 10000} THEN m - 1 ELSE m

\* str(float): the shortest decimal that reads back as the same double, the
\* nearest one of that length.  With nd decimals the nearest decimal is
\* c/100 + e * 10^-nd, e = round(|r| * 5^(nd-2) / 2^(61-nd)); it reads back
\* as the double when it is less than half a unit in the last place away.
\* Seventeen significant digits always do.
RECURSIVE ReprFrom(_, _, _)
ReprFrom(c, r, nd) ==
    LET last == 16 - Decade(c, r)
        k    == nd - 2
        j    == 61 - nd
        A    == BigTimesPow5(Big(Abs(r)), k)
        half == BigShl(Big(1), j - 1)
        e    == BigShr(BigAdd(A, half), j)
        B    == BigShl(e, j)
        tol  == BigTimesPow5(Big(Ulp(Exponent(c, r))), k)
        ok   == BigLess(BigMul(BigDist(A, B), 2), tol)
    IN  IF nd = last \/ ok
        THEN [c |-> c, e |-> Sgn(r) * BigToInt(e) * Pow(10, 19 - nd), s |-> 0]
        ELSE ReprFrom(c, r, nd + 1)

\* number of decimal digits of n > 0
RECURSIVE DigitCount(_)
DigitCount(n) == IF n < 10 THEN 1 ELSE 1 + DigitCount(n \div 10)

\* A double other than the one of c/100 is not written with two decimals,
\* nor with nd decimals while |r| * 10^(nd-2) < 10^17 < 2^58: the nearest
\* such decimal is c/100 itself, which reads back as another double.
FirstDecimals(r) ==
    LET nd == 20 - DigitCount(Abs(r)) IN IF nd < 3 THEN 3 ELSE nd

ReprPos(c, r) ==
    IF CastReal(c) = [c |-> c, r |-> r] THEN Dec(c)
    ELSE ReprFrom(c, r, FirstDecimals(r))

\* Decimal(str(x or "0")) of a double x
DecimalOfReal(x) ==
    IF x.c = 0
    THEN [c |-> 0,
          e |-> Sgn(x.r) * BigToInt(BigShr(BigTimesPow5(Big(Abs(x.r)), 17), 42)),
          s |-> Sgn(x.r)]
    ELSE IF x.c < 0 THEN DecNeg(ReprPos(-x.c, -x.r))
    ELSE ReprPos(x.c, x.r)

\* quantize(Decimal("0.01"), rounding=ROUND_DOWN): toward zero, in cents
Quantize2(d) ==
    LET f == IF d.e # 0 THEN Sgn(d.e) ELSE Sgn(d.s)
    IN  IF d.c > 0 /\ f < 0 THEN d.c - 1
        ELSE IF d.c < 0 /\ f > 0 THEN d.c + 1
        ELSE d.c

\* decimal_str(v): the two-decimal text of v, as its number of cents
decimal_str(v) == Quantize2(v)


(***************************************************************************)
(* Configuration and the inputs the handlers are driven with.              *)
(***************************************************************************)
\* telegram ids of the chat users
Users == {1, 2}

\* ADMINS of the environment
ADMINS == {9}

\* REF_PERCENT in hundredths of a percent: the default "1.0"
Percents == {100}

\* from_user.username / from_user.first_name a user may show up with
Profiles == {[username |-> <<"ann">>, first_name |-> <<"Ann">>],
             [username |-> <<"bob">>, first_name |-> <<"Bob">>]}

\* message.get_args() of /start, as characters
StartArgs == {<<>>, <<"x">>, <<"1">>, <<"2">>}

\* the amount argument of /add_deposit, in cents: -10.00, 0.50, 10.00, 70.00
Amounts == {-1000, 50, 1000, 7000}

\* message.get_args().split() of /add_deposit: [target, amount]; an amount
\* is <<cents>> when Decimal() accepts the word and <<>> when it does not
AddDepositArgs ==
    {<<>>, << <<"1">> >>, << <<"x">>, <<1000>> >>, << <<"2">>, <<>> >>}
    \cup {<< <<t>>, <<a>> >> : t \in {"1", "2"}, a \in Amounts}

MaxDeposits == 2

MaxWithdrawals == 2

\* SQL NULL / Python None, and a present value
NULL == <<>>

Some(x) == <<x>>

Digits == <<"0", "1", "2", "3", "4", "5", "6", "7", "8", "9">>

DigitValue(ch) == (CHOOSE i \in 1..10 : Digits[i] = ch) - 1

IsInt(a) == a # <<>> /\ \A i \in 1..Len(a) : \E d \in 1..10 : Digits[d] = a[i]

RECURSIVE IntOf(_, _)
IntOf(a, acc) == IF a = <<>> THEN acc ELSE IntOf(Tail(a), 10 * acc + DigitValue(Head(a)))

\* a failed int() yields 0 instead of None
ParseIntZero(a) == IF IsInt(a) THEN Some(IntOf(a, 0)) ELSE Some(0)

\* int(args) under try/except: NULL when int() raises
ParseInt(a) == IF IsInt(a) THEN Some(IntOf(a, 0)) ELSE NULL

(***************************************************************************)
(* The tables.  users is keyed by telegram_id (UNIQUE); the other tables   *)
(* are kept in rowid order.                                                *)
(***************************************************************************)
InitOver(percents) ==
    /\ users = [t \in {} |-> NULL]
    /\ deposits = <<>>
    /\ ref_earnings = <<>>
    /\ withdrawals = <<>>
    /\ REF_PERCENT \in percents
    /\ reply = "none"

Init == InitOver(Percents)

create_user_if_not_exists(tbl, tg_id, username, first_name, referred_by) ==
    IF tg_id \in DOMAIN tbl THEN tbl
    ELSE [t \in DOMAIN tbl \cup {tg_id} |->
            IF t = tg_id
            THEN [username |-> username, first_name |-> first_name,
                  referred_by |-> referred_by]
            ELSE tbl[t]]

\* the row of tg_id, or NULL
get_user(tg_id) == IF tg_id \in DOMAIN users THEN Some(users[tg_id]) ELSE NULL

\* the amount column of rows, in rowid order
AmountsOf(rows) == [i \in 1..Len(rows) |-> rows[i].amount]

\* SELECT SUM(CAST(amount AS REAL)) over the earnings rows of a referrer
SumEarnings(rows, tg_id) ==
    LET mine(row) == row.referrer_telegram_id = tg_id
    IN  DecimalOfReal(SumReal(AmountsOf(SelectSeq(rows, mine)), RealZero))

sum_ref_earnings(tg_id) == SumEarnings(ref_earnings, tg_id)

\* pending withdrawals subtracted like paid ones
SumPaidOrPending(rows, tg_id) ==
    LET paid(row) == row.user_telegram_id = tg_id /\ row.status \in {"paid", "pending"}
    IN  DecimalOfReal(SumReal(AmountsOf(SelectSeq(rows, paid)), RealZero))

\* the second query of pending_withdrawable: the user's paid withdrawals
SumPaid(rows, tg_id) ==
    LET paid(row) == row.user_telegram_id = tg_id /\ row.status = "paid"
    IN  DecimalOfReal(SumReal(AmountsOf(SelectSeq(rows, paid)), RealZero))

sum_paid(tg_id) == SumPaid(withdrawals, tg_id)

\* pending_withdrawable over given tables
Withdrawable(earnings, rows, tg_id) ==
    DecSub(SumEarnings(earnings, tg_id), SumPaid(rows, tg_id))

\* paid withdrawals added instead of subtracted
pending_withdrawable_added(tg_id) ==
    DecSub(sum_ref_earnings(tg_id), DecNeg(sum_paid(tg_id)))

pending_withdrawable(tg_id) == Withdrawable(ref_earnings, withdrawals, tg_id)


(***************************************************************************)
(* Handlers.  They run on one event loop: a handler is not interleaved     *)
(* with another one between two awaits, and the database work of every     *)
(* handler lies before its first await, so a handler is one step.          *)
(* /add_deposit commits three times (user, deposit, earning); the process  *)
(* may die between two commits, and what was committed stays.              *)
(***************************************************************************)

\* /start that re-attributes an existing user to the referrer of the argument
StartUsersReattribute(u, profile, args) ==
    LET parsed      == IF args # <<>> THEN ParseInt(args) ELSE NULL
        referred_by == IF parsed = Some(u) THEN NULL ELSE parsed
    IN  IF get_user(u) = NULL
        THEN create_user_if_not_exists(users, u, profile.username,
                                       profile.first_name, referred_by)
        ELSE [users EXCEPT ![u].username = profile.username,
                           ![u].first_name = profile.first_name,
                           ![u].referred_by = referred_by]

\* /start without the self-referral test of line 187
StartUsersSelfReferral(u, profile, args) ==
    LET parsed == IF args # <<>> THEN ParseInt(args) ELSE NULL
    IN  IF get_user(u) = NULL
        THEN create_user_if_not_exists(users, u, profile.username,
                                       profile.first_name, parsed)
        ELSE [users EXCEPT ![u].username = profile.username,
                           ![u].first_name = profile.first_name]

\* /start that gives a referrer to a user /add_deposit created bare
StartUsersAdoptBare(u, profile, args) ==
    LET parsed      == IF args # <<>> THEN ParseInt(args) ELSE NULL
        referred_by == IF parsed = Some(u) THEN NULL ELSE parsed
    IN  IF get_user(u) = NULL
        THEN create_user_if_not_exists(users, u, profile.username,
                                       profile.first_name, referred_by)
        ELSE [users EXCEPT ![u].username = profile.username,
                           ![u].first_name = profile.first_name,
                           ![u].referred_by =
                               IF users[u].username = NULL THEN referred_by ELSE @]

\* the users table after /start by u: lines 177-193
StartUsers(u, profile, args) ==
    LET parsed      == IF args # <<>> THEN ParseInt(args) ELSE NULL
        referred_by == IF parsed = Some(u) THEN NULL ELSE parsed
    IN  IF get_user(u) = NULL
        THEN create_user_if_not_exists(users, u, profile.username,
                                       profile.first_name, referred_by)
        ELSE [users EXCEPT ![u].username = profile.username,
                           ![u].first_name = profile.first_name]

cmd_start(u, profile, args) ==
    /\ users' = StartUsers(u, profile, args)
    /\ reply' = "welcome"
    /\ UNCHANGED <<deposits, ref_earnings, withdrawals, REF_PERCENT>>

\* the withdrawal is inserted as already paid
WithdrawalRowPaid(u, to_withdraw) ==
    [user_telegram_id |-> u, amount |-> decimal_str(to_withdraw), status |-> "paid"]

\* the row withdraw_request inserts for a positive to_withdraw
WithdrawalRow(u, to_withdraw) ==
    [user_telegram_id |-> u, amount |-> decimal_str(to_withdraw), status |-> "pending"]

\* to_withdraw <= Decimal("0")
NothingToWithdraw(to_withdraw) == DecSign(to_withdraw) <= 0

withdraw_request(u) ==
    /\ Len(withdrawals) < MaxWithdrawals
    /\ LET to_withdraw == pending_withdrawable(u)
       IN  IF NothingToWithdraw(to_withdraw)
           THEN /\ reply' = "no_funds"
                /\ UNCHANGED withdrawals
           ELSE /\ withdrawals' = Append(withdrawals, WithdrawalRow(u, to_withdraw))
                /\ reply' = "withdraw_created"
    /\ UNCHANGED <<users, deposits, ref_earnings, REF_PERCENT>>

\* division of integers that rounds toward zero
TruncDiv(x, d) == Sgn(x) * (Abs(x) \div d)

\* the bonus rounded half up instead of down
referral_bonus_rounded(amount, percent) ==
    TruncDiv(amount * percent + Sgn(amount * percent) * 5000, 10000)

\* (amount * REF_PERCENT / Decimal("100")).quantize(Decimal("0.01"), ROUND_DOWN):
\* cents times hundredths of a percent are 1/10000 of a cent
referral_bonus(amount, percent) == TruncDiv(amount * percent, 10000)

\* /add_deposit without the test of the sender against ADMINS
RefusalWithoutAdminCheck(actor, args) ==
    IF Len(args) < 2 THEN "usage"
    ELSE IF ParseInt(args[1]) = NULL \/ args[2] = NULL THEN "bad_params"
    ELSE "none"

\* the answer of /add_deposit when it returns before the database: lines 263-272
Refusal(actor, args) ==
    IF actor \notin ADMINS THEN "admins_only"
    ELSE IF Len(args) < 2 THEN "usage"
    ELSE IF ParseInt(args[1]) = NULL \/ args[2] = NULL THEN "bad_params"
    ELSE "none"

\* the deposit row of lines 276-277
DepositRow(target_id, amount) ==
    [user_telegram_id |-> target_id, amount |-> decimal_str(Dec(amount)),
     currency |-> "USDT"]

\* user and user.get("referred_by") and referrer != target_id
Eligible(user, target_id) ==
    /\ user # NULL
    /\ user[1].referred_by # NULL
    /\ user[1].referred_by[1] # 0
    /\ user[1].referred_by[1] # target_id

\* a user without referrer is credited its own bonus
CreditedEarningsToTarget(user, target_id, amount) ==
    Append(ref_earnings,
           [referrer_telegram_id  |-> IF Eligible(user, target_id)
                                      THEN user[1].referred_by[1] ELSE target_id,
            from_user_telegram_id |-> target_id,
            amount                |-> referral_bonus(amount, REF_PERCENT)])

\* the earning is written with the depositor in the referrer column too
CreditedEarningsToDepositor(user, target_id, amount) ==
    IF Eligible(user, target_id)
    THEN Append(ref_earnings,
                [referrer_telegram_id  |-> target_id,
                 from_user_telegram_id |-> target_id,
                 amount                |-> referral_bonus(amount, REF_PERCENT)])
    ELSE ref_earnings

\* the bonus is added to the last earning row instead of a new row
CreditedEarningsMerged(user, target_id, amount) ==
    IF Eligible(user, target_id)
    THEN IF ref_earnings = <<>>
         THEN <<[referrer_telegram_id  |-> user[1].referred_by[1],
                 from_user_telegram_id |-> target_id,
                 amount                |-> referral_bonus(amount, REF_PERCENT)]>>
         ELSE [ref_earnings EXCEPT ![Len(ref_earnings)].amount =
                  @ + referral_bonus(amount, REF_PERCENT)]
    ELSE ref_earnings

\* the referrer of the referrer is credited the bonus as well
CreditedEarningsTwoHops(user, target_id, amount) ==
    IF Eligible(user, target_id)
    THEN LET referrer == user[1].referred_by[1]
             first    == Append(ref_earnings,
                                [referrer_telegram_id  |-> referrer,
                                 from_user_telegram_id |-> target_id,
                                 amount |-> referral_bonus(amount, REF_PERCENT)])
         IN  IF Eligible(get_user(referrer), referrer)
             THEN Append(first,
                         [referrer_telegram_id  |-> users[referrer].referred_by[1],
                          from_user_telegram_id |-> referrer,
                          amount |-> referral_bonus(amount, REF_PERCENT)])
             ELSE first
    ELSE ref_earnings

\* the ref_earnings table after lines 279-286; user is get_user(target_id)
CreditedEarnings(user, target_id, amount) ==
    IF Eligible(user, target_id)
    THEN Append(ref_earnings,
                [referrer_telegram_id  |-> user[1].referred_by[1],
                 from_user_telegram_id |-> target_id,
                 amount                |-> referral_bonus(amount, REF_PERCENT)])
    ELSE ref_earnings

\* the tables after the first `commits` commits of /add_deposit:
\* line 274 (commit at 108), lines 275-278, lines 279-286
AddDepositWrites(args, commits) ==
    LET target_id == ParseInt(args[1])[1]
        amount    == args[2][1]
        ensured   == create_user_if_not_exists(users, target_id, NULL, NULL, NULL)
    IN  /\ users' = ensured
        /\ deposits' = IF commits >= 2 THEN Append(deposits, DepositRow(target_id, amount))
                       ELSE deposits
        /\ ref_earnings' = IF commits >= 3
                           THEN CreditedEarnings(Some(ensured[target_id]), target_id, amount)
                           ELSE ref_earnings

admin_add_deposit(actor, args) ==
    /\ Len(deposits) < MaxDeposits
    /\ IF Refusal(actor, args) # "none"
       THEN /\ reply' = Refusal(actor, args)
            /\ UNCHANGED <<users, deposits, ref_earnings>>
       ELSE /\ AddDepositWrites(args, 3)
            /\ reply' = "deposit_added"
    /\ UNCHANGED <<withdrawals, REF_PERCENT>>

\* the process dies inside /add_deposit after its first or second commit
AddDepositCrash(actor, args, commits) ==
    /\ Len(deposits) < MaxDeposits
    /\ Refusal(actor, args) = "none"
    /\ AddDepositWrites(args, commits)
    /\ reply' = "none"
    /\ UNCHANGED <<withdrawals, REF_PERCENT>>

\* an operator settles a pending withdrawal by hand
SetWithdrawalStatus(i, status) ==
    /\ i \in 1..Len(withdrawals)
    /\ withdrawals[i].status = "pending"
    /\ withdrawals' = [withdrawals EXCEPT ![i].status = status]
    /\ reply' = "none"
    /\ UNCHANGED <<users, deposits, ref_earnings, REF_PERCENT>>

MarkPaid(i) == SetWithdrawalStatus(i, "paid")

MarkRejected(i) == SetWithdrawalStatus(i, "rejected")

Next ==
    \/ \E u \in Users, profile \in Profiles, args \in StartArgs : cmd_start(u, profile, args)
    \/ \E u \in Users : withdraw_request(u)
    \/ \E actor \in Users \cup ADMINS, args \in AddDepositArgs : admin_add_deposit(actor, args)
    \/ \E actor \in ADMINS, args \in AddDepositArgs, commits \in {1, 2} :
          AddDepositCrash(actor, args, commits)
    \/ \E i \in 1..MaxWithdrawals : MarkPaid(i)
    \/ \E i \in 1..MaxWithdrawals : MarkRejected(i)

Spec == Init /\ [][Next]_vars

(***************************************************************************)
(* The bonus arithmetic over more percentages and amounts: registrations   *)
(* and deposits only.                                                      *)
(***************************************************************************)
\* REF_PERCENT "1.0", "0.33", "2.5"
BonusPercents == {100, 33, 250}

\* -10.00, 0.50, 9.99, 10.00, 100.00, 200.00
BonusAmounts == {-1000, 50, 999, 1000, 10000, 20000}

BonusArgs == {<< <<t>>, <<a>> >> : t \in {"1", "2"}, a \in BonusAmounts}

BonusProfile == [username |-> <<"ann">>, first_name |-> <<"Ann">>]

InitBonus == InitOver(BonusPercents)

NextBonus ==
    \/ \E u \in Users, args \in StartArgs : cmd_start(u, BonusProfile, args)
    \/ \E actor \in ADMINS, args \in BonusArgs : admin_add_deposit(actor, args)

SpecBonus == InitBonus /\ [][NextBonus]_vars


(***************************************************************************)
(* Ledger quantities in exact cents, read off the rows.                    *)
(***************************************************************************)
RECURSIVE SumSeq(_)
SumSeq(q) == IF q = <<>> THEN 0 ELSE Head(q) + SumSeq(Tail(q))

\* cents earned by u: the exact sum of its earning rows
EarnedCents(u) ==
    LET mine(row) == row.referrer_telegram_id = u
    IN  SumSeq(AmountsOf(SelectSeq(ref_earnings, mine)))

\* cents of u's withdrawals whose status is in statuses
WithdrawnCents(u, statuses) ==
    LET mine(row) == row.user_telegram_id = u /\ row.status \in statuses
    IN  SumSeq(AmountsOf(SelectSeq(withdrawals, mine)))

\* the rows of a table that concern a user
DepositsOf(t) == {i \in 1..Len(deposits) : deposits[i].user_telegram_id = t}

EarningsFrom(t) == {i \in 1..Len(ref_earnings) : ref_earnings[i].from_user_telegram_id = t}

\* a step that appends exactly one row to a table
Appends(before, after) ==
    /\ Len(after) = Len(before) + 1
    /\ SubSeq(after, 1, Len(before)) = before

(***************************************************************************)
(* Claims.                                                                 *)
(***************************************************************************)

\* C1: for every user and every reachable state, the withdrawable balance
\* the bot computes never exceeds the total it computes as earned.
C1_WithdrawableAtMostEarned ==
    \A u \in Users :
        DecSign(DecSub(pending_withdrawable(u), sum_ref_earnings(u))) <= 0

\* a user with a paid withdrawal of a positive amount, whose withdrawable
\* balance is strictly below what the user earned
C1_Witness ==
    \E u \in Users :
        /\ WithdrawnCents(u, {"paid"}) > 0
        /\ DecSign(DecSub(pending_withdrawable(u), sum_ref_earnings(u))) < 0

\* C2 (as claimed): a withdrawal request never succeeds in creating a
\* withdrawal that brings the user's pending and paid withdrawals above the
\* user's total earned.
C2_NoDoubleSpend ==
    [][\A u \in Users :
          (/\ Appends(withdrawals, withdrawals')
           /\ withdrawals'[Len(withdrawals')].user_telegram_id = u)
          => WithdrawnCents(u, {"pending", "paid"})' <= EarnedCents(u)']_vars

\* C3 (as claimed): for a target user with an eligible referrer, every
\* deposit is recorded together with its referral earning, also after a crash
\* inside the operation.
C3_DepositWithEarning ==
    \A t \in DOMAIN users :
        Eligible(Some(users[t]), t)
        => Cardinality(DepositsOf(t)) = Cardinality(EarningsFrom(t))

\* C4: no step changes the referred_by of an existing user or removes the
\* user, and a /start changes nothing but the record of one user.
C4_ReferredByFirstWriteWins ==
    [][/\ \A u \in DOMAIN users :
             /\ u \in DOMAIN users'
             /\ users'[u].referred_by = users[u].referred_by
       /\ reply' = "welcome" =>
             /\ UNCHANGED <<deposits, ref_earnings, withdrawals>>
             /\ \E u \in DOMAIN users' : \A v \in DOMAIN users' \ {u} :
                   v \in DOMAIN users /\ users'[v] = users[v]]_vars

\* a user attributed to a referrer who was seen again under another name
C4_Witness ==
    /\ 2 \in DOMAIN users
    /\ users[2].referred_by = Some(1)
    /\ users[2].username = Some("bob")
    /\ 1 \in DOMAIN users
    /\ users[1].referred_by = NULL
    /\ reply = "welcome"

\* the argument of /start that names user u
ArgOf(u) == <<Digits[u + 1]>>

\* C5: no user is referred by itself, and /start of a new user with its own
\* identifier as argument creates it without referrer.
C5_NoSelfReferral ==
    /\ \A u \in DOMAIN users : users[u].referred_by # Some(u)
    /\ \A u \in Users \ DOMAIN users : \A profile \in Profiles :
          /\ ParseInt(ArgOf(u)) = Some(u)
          /\ StartUsers(u, profile, ArgOf(u))[u].referred_by = NULL

\* a user registered by /start, without referrer, next to a referred one
C5_Witness ==
    /\ 1 \in DOMAIN users
    /\ users[1].username # NULL
    /\ users[1].referred_by = NULL
    /\ 2 \notin DOMAIN users


\* the last row of a table
Last(rows) == rows[Len(rows)]

\* C6 (as claimed): a withdrawal request of a user with nothing to withdraw
\* is answered NothingToWithdraw and changes no table; any other request
\* appends exactly one withdrawal, pending, owned by the requester, whose
\* amount is exactly the withdrawable balance read by the request.
C6_RequestWithdrawal ==
    [][/\ \A u \in Users :
             NothingToWithdraw(pending_withdrawable(u))
             => ~(Appends(withdrawals, withdrawals') /\ Last(withdrawals').user_telegram_id = u)
       /\ reply' = "no_funds" => UNCHANGED store
       /\ reply' = "withdraw_created" =>
             /\ Appends(withdrawals, withdrawals')
             /\ UNCHANGED <<users, deposits, ref_earnings>>
             /\ Last(withdrawals').status = "pending"
             /\ Dec(Last(withdrawals').amount)
                  = pending_withdrawable(Last(withdrawals').user_telegram_id)]_vars

\* C7 (as claimed): no referral earning of amount 0.00 is ever recorded.
C7_NoZeroEarning ==
    \A i \in 1..Len(ref_earnings) : ref_earnings[i].amount # 0

\* C8 (as claimed): every recorded deposit has a strictly positive amount.
C8_DepositsPositive ==
    \A i \in 1..Len(deposits) : deposits[i].amount > 0

\* b is x / d rounded toward zero
IsTruncation(b, x, d) ==
    /\ Abs(b) * d <= Abs(x)
    /\ Abs(x) < (Abs(b) + 1) * d
    /\ b = 0 \/ Sgn(b) = Sgn(x)

\* C9: a completed deposit credit of a user with a referrer other than
\* itself records one earning, for that referrer, whose amount is
\* amount * REF_PERCENT / 100 truncated toward zero to whole cents; any
\* other completed deposit credit records none.
C9_BonusTruncated ==
    [][reply' = "deposit_added" =>
         /\ Appends(deposits, deposits')
         /\ LET d == Last(deposits')
                t == d.user_telegram_id
            IN  IF users'[t].referred_by \notin {NULL, Some(t)}
                THEN /\ Appends(ref_earnings, ref_earnings')
                     /\ Last(ref_earnings').from_user_telegram_id = t
                     /\ Some(Last(ref_earnings').referrer_telegram_id) = users'[t].referred_by
                     /\ IsTruncation(Last(ref_earnings').amount,
                                     d.amount * REF_PERCENT, 10000)
                ELSE UNCHANGED ref_earnings]_vars

\* 10.00 at 0.33 percent has just been credited as 0.03
C9_Witness ==
    /\ reply = "deposit_added"
    /\ REF_PERCENT = 33
    /\ deposits # <<>> /\ Last(deposits).amount = 1000
    /\ ref_earnings # <<>> /\ Last(ref_earnings).amount = 3
    /\ Len(ref_earnings) = Len(deposits)

\* C10: a withdrawal request that creates a withdrawal, and the rejection of
\* a pending withdrawal, leave the withdrawable balance of every user as it
\* was.
C10_PendingNotSubtracted ==
    [][(\/ reply' = "withdraw_created"
        \/ \E i \in 1..Len(withdrawals) :
              /\ Len(withdrawals') = Len(withdrawals)
              /\ withdrawals[i].status = "pending"
              /\ withdrawals'[i].status = "rejected")
       => \A u \in Users :
             Withdrawable(ref_earnings', withdrawals', u) = pending_withdrawable(u)]_vars

\* a withdrawal was just requested, and its owner can still withdraw its amount
C10_Witness ==
    /\ reply = "withdraw_created"
    /\ Last(withdrawals).status = "pending"
    /\ Last(withdrawals).amount > 0
    /\ pending_withdrawable(Last(withdrawals).user_telegram_id)
         = Dec(Last(withdrawals).amount)

\* the step marks withdrawal i, pending before it, as paid
MarkedPaid(i) ==
    /\ Len(withdrawals') = Len(withdrawals)
    /\ i \in 1..Len(withdrawals)
    /\ withdrawals[i].status = "pending"
    /\ withdrawals'[i].status = "paid"

\* C11 (as claimed): marking a pending withdrawal of u as paid lowers the
\* withdrawable balance of u by exactly the amount of that withdrawal, and
\* leaves the total earned by u and the withdrawable balance of every other
\* user as they were.
C11_PaidLowersByAmount ==
    [][\A i \in 1..MaxWithdrawals :
          MarkedPaid(i) =>
             LET u == withdrawals[i].user_telegram_id
             IN  /\ Withdrawable(ref_earnings', withdrawals', u)
                      = DecSub(pending_withdrawable(u), Dec(withdrawals[i].amount))
                 /\ SumEarnings(ref_earnings', u) = sum_ref_earnings(u)
                 /\ \A v \in Users \ {u} :
                       Withdrawable(ref_earnings', withdrawals', v)
                         = pending_withdrawable(v)]_vars

\* C12: a completed deposit credit of a user without referrer, or referred
\* by itself, appends exactly one deposit, records no earning and leaves the
\* total earned of every user as it was.
C12_NoReferrerNoEarning ==
    [][reply' = "deposit_added" =>
         /\ Appends(deposits, deposits')
         /\ LET t == Last(deposits').user_telegram_id
            IN  users'[t].referred_by \in {NULL, Some(t)} =>
                   /\ UNCHANGED ref_earnings
                   /\ \A u \in Users :
                         SumEarnings(ref_earnings', u) = sum_ref_earnings(u)]_vars

\* a deposit of a user without referrer has just been credited, after a
\* deposit that did earn a bonus
C12_Witness ==
    /\ reply = "deposit_added"
    /\ Len(deposits) = 2
    /\ users[Last(deposits).user_telegram_id].referred_by = NULL
    /\ Len(ref_earnings) = 1
    /\ Last(ref_earnings).amount > 0

\* C13: in every reachable state the referrer of every earning differs from
\* the user the earning comes from.
C13_EarningNotFromSelf ==
    \A i \in 1..Len(ref_earnings) :
        ref_earnings[i].referrer_telegram_id # ref_earnings[i].from_user_telegram_id

\* two users who refer each other have each earned from the other's deposit
C13_Witness ==
    /\ Len(ref_earnings) = 2
    /\ ref_earnings[1].referrer_telegram_id = ref_earnings[2].from_user_telegram_id
    /\ ref_earnings[2].referrer_telegram_id = ref_earnings[1].from_user_telegram_id
    /\ ref_earnings[1].referrer_telegram_id # ref_earnings[2].referrer_telegram_id

\* C14: a new withdrawal is pending; an existing withdrawal stays in the
\* table with its owner and amount, and its status either stays or goes
\* from pending to paid or rejected, so paid and rejected are final.
C14_WithdrawalLifecycle ==
    [][/\ Len(withdrawals) <= Len(withdrawals')
       /\ \A i \in 1..Len(withdrawals) :
             /\ withdrawals'[i].user_telegram_id = withdrawals[i].user_telegram_id
             /\ withdrawals'[i].amount = withdrawals[i].amount
             /\ \/ withdrawals'[i].status = withdrawals[i].status
                \/ /\ withdrawals[i].status = "pending"
                   /\ withdrawals'[i].status \in {"paid", "rejected"}
       /\ \A i \in (Len(withdrawals) + 1)..Len(withdrawals') :
             withdrawals'[i].status = "pending"]_vars

\* a withdrawal of 0.10 was paid, another one rejected, and the owner has
\* just earned more than was withdrawn
C14_Witness ==
    /\ Len(withdrawals) = 2
    /\ withdrawals[1].status = "paid"
    /\ withdrawals[1].amount = 10
    /\ withdrawals[2].status = "rejected"
    /\ withdrawals[2].user_telegram_id = withdrawals[1].user_telegram_id
    /\ EarnedCents(withdrawals[1].user_telegram_id) = 80
    /\ reply = "deposit_added"

\* a is an initial segment of b
IsPrefix(a, b) == Len(a) <= Len(b) /\ SubSeq(b, 1, Len(a)) = a

\* C15: across every step the deposits and the earnings recorded before it
\* are still there, in place and unmodified; rows are only added.
C15_LedgerAppendOnly ==
    [][IsPrefix(deposits, deposits') /\ IsPrefix(ref_earnings, ref_earnings')]_vars

\* two deposits of the same user have earned its referrer two earning rows
C15_Witness ==
    /\ Len(deposits) = 2
    /\ Len(ref_earnings) = 2
    /\ ref_earnings[1].referrer_telegram_id = ref_earnings[2].referrer_telegram_id
    /\ ref_earnings[1].from_user_telegram_id = ref_earnings[2].from_user_telegram_id
    /\ ref_earnings[1].amount = 10
    /\ ref_earnings[2].amount = 70

\* arguments of /start that int() rejects: "x", "1x", "-"
UnparseableArgs == {<<"x">>, <<"1", "x">>, <<"-">>}

\* C16: in every reachable state, /start of a user without record with an
\* argument that does not parse is possible and creates the record, with
\* the sender's names and without referrer.
C16_UnparseableArgNoReferrer ==
    \A u \in Users \ DOMAIN users : \A profile \in Profiles :
        \A args \in UnparseableArgs \cup {a \in StartArgs \ {<<>>} : ~IsInt(a)} :
            /\ ParseInt(args) = NULL
            /\ ENABLED cmd_start(u, profile, args)
            /\ LET after == StartUsers(u, profile, args)
               IN  /\ DOMAIN after = DOMAIN users \cup {u}
                   /\ after[u] = [username |-> profile.username,
                                  first_name |-> profile.first_name,
                                  referred_by |-> NULL]

\* the first user to register has just done so and has no referrer
C16_Witness ==
    /\ DOMAIN users = {2}
    /\ users[2].username = Some("bob")
    /\ users[2].referred_by = NULL
    /\ reply = "welcome"
    /\ deposits = <<>>

\* the record create_user_if_not_exists(target_id) inserts
BareUser == [username |-> NULL, first_name |-> NULL, referred_by |-> NULL]

\* C17: the owner of every recorded deposit has a user record; a completed
\* deposit credit of an identifier without record creates a bare record
\* without referrer and records no earning; and no step gives a referrer to
\* a user who has none.
C17_DepositCreatesBareUser ==
    [][/\ \A i \in 1..Len(deposits') : deposits'[i].user_telegram_id \in DOMAIN users'
       /\ reply' = "deposit_added" =>
             LET t == Last(deposits').user_telegram_id
             IN  t \notin DOMAIN users =>
                    /\ users'[t] = BareUser
                    /\ UNCHANGED ref_earnings
       /\ \A u \in DOMAIN users :
             users[u].referred_by = NULL =>
                u \in DOMAIN users' /\ users'[u].referred_by = NULL]_vars

\* a user with a deposit and no referrer has sent /start after the other
\* user registered, and its deposit earned nobody anything
C17_Witness ==
    /\ DOMAIN users = {1, 2}
    /\ users[1].username # NULL
    /\ users[2].username # NULL
    /\ users[2].referred_by = NULL
    /\ Len(deposits) = 1
    /\ deposits[1].user_telegram_id = 2
    /\ ref_earnings = <<>>
    /\ reply = "welcome"

\* C18: a step adds at most one earning, and only together with a deposit,
\* from the depositor to the depositor's own referrer; so there are never
\* more earnings than deposits, referral cycles included.
C18_OneHop ==
    [][/\ Len(ref_earnings') <= Len(ref_earnings) + 1
       /\ Len(ref_earnings') <= Len(deposits')
       /\ Len(ref_earnings') = Len(ref_earnings) + 1 =>
             /\ Appends(deposits, deposits')
             /\ LET t == Last(deposits').user_telegram_id
                IN  /\ Last(ref_earnings').from_user_telegram_id = t
                    /\ Some(Last(ref_earnings').referrer_telegram_id)
                         = users'[t].referred_by]_vars

\* users 1 and 2 refer each other; the one deposit, of user 2, has credited
\* user 1 once and nobody else
C18_Witness ==
    /\ DOMAIN users = {1, 2}
    /\ users[1].referred_by = Some(2)
    /\ users[2].referred_by = Some(1)
    /\ Len(deposits) = 1
    /\ deposits[1].user_telegram_id = 2
    /\ Len(ref_earnings) = 1
    /\ ref_earnings[1].referrer_telegram_id = 1
    /\ ref_earnings[1].from_user_telegram_id = 2
    /\ reply = "deposit_added"

\* C19: every /add_deposit step of a sender who is not in ADMINS is answered
\* "admins only" and leaves users, deposits, earnings and withdrawals
\* unchanged.
C19_NonAdminRejected ==
    [][\A actor \in Users \ ADMINS : \A args \in AddDepositArgs :
          admin_add_deposit(actor, args) =>
             reply' = "admins_only" /\ UNCHANGED store]_vars

\* a non-admin has just been refused while deposits, earnings and
\* withdrawals exist
C19_Witness ==
    /\ reply = "admins_only"
    /\ deposits # <<>>
    /\ ref_earnings # <<>>
    /\ withdrawals # <<>>

\* C20 (as claimed): in every reachable state the total earned and the
\* withdrawable balance of every user are at least zero.
C20_BalancesNonNegative ==
    \A u \in Users :
        /\ DecSign(sum_ref_earnings(u)) >= 0
        /\ DecSign(pending_withdrawable(u)) >= 0

====
